---- MODULE Spec2Model ----
(***************************************************************************)
(* Model of elastic_chain/simulation.py: a chain of rings lying on a floor *)
(* whose last ring is pulled by a constant force.  Ring, PassiveRing,      *)
(* ActiveRing, Simulator.__init__, Simulator.update and Simulator.collide  *)
(* are translated statement by statement.                                  *)
(*                                                                         *)
(* Numbers.  The program computes with Python floats.  The model computes  *)
(* with exact rational numbers <<n, d>> (d > 0, lowest terms), so every    *)
(* equality below is an equality of real numbers; float rounding is not    *)
(* modelled.                                                               *)
(***************************************************************************)
EXTENDS Integers, Sequences, FiniteSets

VARIABLES
    pc,      \* position of the caller: "new" (Simulator(...) not yet called),
             \* "ready" (__init__ returned); "collide_call"/"collide_ret" and
             \* "move_call"/"move_ret" for calls of collide / move on their own
    N,       \* argument N of Simulator.__init__
    F,       \* argument F of Simulator.__init__
    dt,      \* self.dt (argument dt)
    rings,   \* self.rings: sequence of ring records (rings[i+1] is Python rings[i])
    pairs,   \* self.pairs: sequence of <<i, j>>, 0-based indices as in the code
    frame,   \* number of update calls made so far (the frame counter of the driver)
    moved,   \* history: the rings right after the motion loop of the last update
             \*          (for a lone collide / move call: the rings before the call)
    log      \* history: one entry per pair examined by the last update

vars == <<pc, N, F, dt, rings, pairs, frame, moved, log>>

(***************************************************************************)
(* Bounds of the model.                                                    *)
(***************************************************************************)
MaxN == 4          \* N ranges over 0..MaxN
MaxFrame == 6      \* the driver calls update MaxFrame times and stops
                   \* (run_animation: frames=n, repeat=False)
MaxF == 3          \* F ranges over -1..MaxF
MaxDtK == 2        \* dt ranges over -1/2, 0, 1/2, .., MaxDtK/2 and the default
MaxYK == 6         \* lone calls: y ranges over 0, 1/10, .., MaxYK/10
MaxVK == 1         \* lone calls: vy ranges over -MaxVK..MaxVK
MaxRK == 2         \* lone calls: r ranges over 1/10, .., MaxRK/10

(***************************************************************************)
(* Exact arithmetic on rationals <<n, d>>.                                 *)
(***************************************************************************)
IAbs(x) == IF x < 0 THEN -x ELSE x

RECURSIVE GCD(_, _)
GCD(a, b) == IF b = 0 THEN a ELSE GCD(b, a % b)

LCM(a, b) == (a \div GCD(a, b)) * b

Rat(n, d) ==
    LET s == IF d < 0 THEN -1 ELSE 1
        k == GCD(IAbs(n), IAbs(d))
    IN  <<(s * n) \div k, (s * d) \div k>>

Zero == Rat(0, 1)

RAdd(a, b) ==
    LET l == LCM(a[2], b[2])
    IN  Rat(a[1] * (l \div a[2]) + b[1] * (l \div b[2]), l)

RNeg(a) == <<-a[1], a[2]>>

RSub(a, b) == RAdd(a, RNeg(b))

RMul(a, b) ==
    LET k1 == GCD(IAbs(a[1]), b[2])
        k2 == GCD(IAbs(b[1]), a[2])
    IN  Rat((a[1] \div k1) * (b[1] \div k2), (a[2] \div k2) * (b[2] \div k1))

RHalf(a) == RMul(a, Rat(1, 2))

RAbs(a) == <<IAbs(a[1]), a[2]>>

RLeq(a, b) ==
    LET l == LCM(a[2], b[2])
    IN  a[1] * (l \div a[2]) <= b[1] * (l \div b[2])

RLt(a, b) == RLeq(a, b) /\ a # b

(***************************************************************************)
(* Program constants.                                                      *)
(***************************************************************************)
g == Rat(-1, 1)              \* free fall acceleration
RingRadius == Rat(1, 10)     \* r = 0.1 in Simulator.__init__
DefaultDt == Rat(1, 100)     \* dt=0.01

(***************************************************************************)
(* Rings.  A PassiveRing has no attribute a.                               *)
(***************************************************************************)
PassiveRing(y, r) == [kind |-> "Passive", y |-> y, vy |-> Zero, r |-> r]

ActiveRing(y, a, r) == [kind |-> "Active", y |-> y, vy |-> Zero, r |-> r, a |-> a]

\* PassiveRing._move / ActiveRing._move: the acceleration used by _move
Accel(ring) == IF ring.kind = "Active" THEN RAdd(g, ring.a) ELSE g

\* _move(dt):  y += vy*dt + acc*dt**2/2 ;  vy += acc*dt   (y first, with the old vy)
Integrate(ring, h) ==
    [ring EXCEPT !.y  = RAdd(ring.y, RAdd(RMul(ring.vy, h),
                                           RHalf(RMul(Accel(ring), RMul(h, h))))),
                 !.vy = RAdd(ring.vy, RMul(Accel(ring), h))]

\* move with a clamp that forgets to reset the velocity
MoveKeepVy(ring, h) ==
    LET m == Integrate(ring, h)
    IN  IF RLeq(RSub(m.y, m.r), Zero) THEN [m EXCEPT !.y = m.r] ELSE m

\* move with a strict floor test
MoveStrict(ring, h) ==
    LET m == Integrate(ring, h)
    IN  IF RLt(RSub(m.y, m.r), Zero) THEN [m EXCEPT !.y = m.r, !.vy = Zero] ELSE m

\* RingInterface.move(dt)
Move(ring, h) ==
    LET m == Integrate(ring, h)
    IN  IF RLeq(RSub(m.y, m.r), Zero) THEN [m EXCEPT !.y = m.r, !.vy = Zero] ELSE m

\* for ring in self.rings: ring.move(self.dt)
MoveAll(rs, h) == [k \in 1..Len(rs) |-> Move(rs[k], h)]

(***************************************************************************)
(* Simulator.                                                              *)
(***************************************************************************)
\* the rings built by __init__: N-1 passive rings, then the active ring
NewRings(n, f) ==
    [k \in 1..(n - 1) |-> PassiveRing(RingRadius, RingRadius)]
        \o <<ActiveRing(RingRadius, f, RingRadius)>>

\* pairs listed from the free end of the chain to the driven end
PairsForward(n) == [k \in 1..(n - 1) |-> <<k - 1, k>>]

\* self.pairs = [(i, i+1) for i in reversed(range(N-1))]
Pairs(n) == [k \in 1..(n - 1) |-> <<n - 1 - k, n - k>>]

\* the test of update with the comparison reversed
SkipApart(ring1, ring2) ==
    ~ RLeq(RAbs(RSub(ring1.y, ring2.y)), RAdd(ring1.r, ring2.r))

\* update: if (abs(ring1.y - ring2.y) <= ring1.r + ring2.r): continue
Skip(ring1, ring2) ==
    RLeq(RAbs(RSub(ring1.y, ring2.y)), RAdd(ring1.r, ring2.r))

\* collide without the exchange of ring1 and ring2
CollideNoSwap(rs, i, j) ==
    LET v    == RHalf(RAdd(rs[i + 1].vy, rs[j + 1].vy))
        y_av == RHalf(RSub(RAdd(RAdd(rs[i + 1].y, rs[i + 1].r), rs[j + 1].y), rs[j + 1].r))
    IN  [k \in 1..Len(rs) |->
            IF k = i + 1 THEN [rs[k] EXCEPT !.vy = v, !.y = RSub(y_av, rs[k].r)]
            ELSE IF k = j + 1 THEN [rs[k] EXCEPT !.vy = v, !.y = RAdd(y_av, rs[k].r)]
            ELSE rs[k]]

\* collide(ring1, ring2) called on rings[i], rings[j]
Collide(rs, i, j) ==
    LET v    == RHalf(RAdd(rs[i + 1].vy, rs[j + 1].vy))
        swap == RLt(rs[j + 1].y, rs[i + 1].y)
        lo   == IF swap THEN j + 1 ELSE i + 1      \* ring1 after the exchange
        hi   == IF swap THEN i + 1 ELSE j + 1      \* ring2 after the exchange
        y_av == RHalf(RSub(RAdd(RAdd(rs[lo].y, rs[lo].r), rs[hi].y), rs[hi].r))
    IN  [k \in 1..Len(rs) |->
            IF k = lo THEN [rs[k] EXCEPT !.vy = v, !.y = RSub(y_av, rs[k].r)]
            ELSE IF k = hi THEN [rs[k] EXCEPT !.vy = v, !.y = RAdd(y_av, rs[k].r)]
            ELSE rs[k]]

\* for i, j in self.pairs: ...   (ps: the pairs still to examine, lg: the log so far)
RECURSIVE PairLoop(_, _, _)
PairLoop(rs, ps, lg) ==
    IF ps = <<>> THEN [rings |-> rs, log |-> lg]
    ELSE LET i     == ps[1][1]
             j     == ps[1][2]
             skip  == Skip(rs[i + 1], rs[j + 1])
             after == IF skip THEN rs ELSE Collide(rs, i, j)
         IN  PairLoop(after, Tail(ps),
                      Append(lg, [i |-> i, j |-> j, before |-> rs,
                                  after |-> after, called |-> ~skip]))

(***************************************************************************)
(* The simulator: construction, then update once per frame.                *)
(***************************************************************************)
FValues == {Rat(k, 1) : k \in -1..MaxF}

DtValues == {Rat(k, 2) : k \in -1..MaxDtK} \cup {DefaultDt}

Init ==
    /\ pc = "new"
    /\ N \in 0..MaxN
    /\ F \in FValues
    /\ dt \in DtValues
    /\ rings = <<>>
    /\ pairs = <<>>
    /\ frame = 0
    /\ moved = <<>>
    /\ log = <<>>

\* Simulator.__init__(N, F, axis, dt): no argument is checked
Construct ==
    /\ pc = "new"
    /\ pc' = "ready"
    /\ rings' = NewRings(N, F)
    /\ pairs' = Pairs(N)
    /\ UNCHANGED <<N, F, dt, frame, moved, log>>

\* Simulator.update(frame)
Update ==
    /\ pc = "ready"
    /\ frame < MaxFrame
    /\ LET m   == MoveAll(rings, dt)
           res == PairLoop(m, pairs, <<>>)
       IN  /\ moved' = m
           /\ rings' = res.rings
           /\ log' = res.log
    /\ frame' = frame + 1
    /\ UNCHANGED <<pc, N, F, dt, pairs>>

Next == Construct \/ Update

Spec == Init /\ [][Next]_vars

\* a step that advances the frame counter; under [][Next]_vars only Update does
Tick == pc = "ready" /\ frame < MaxFrame /\ frame' = frame + 1

\* the constructor returns, and the driver calls update on every frame
FairSpec == Init /\ [][Next]_vars /\ WF_pc(Construct) /\ WF_frame(Tick)

(***************************************************************************)
(* collide called on its own, on two arbitrary rings, in either order.     *)
(***************************************************************************)
YGrid == {Rat(k, 10) : k \in 0..MaxYK}

VGrid == {Rat(k, 1) : k \in -MaxVK..MaxVK}

RGrid == {Rat(k, 10) : k \in 1..MaxRK}

PassiveStates ==
    {[PassiveRing(y, r) EXCEPT !.vy = v] : y \in YGrid, v \in VGrid, r \in RGrid}

ActiveStates ==
    {[ActiveRing(s.y, a, s.r) EXCEPT !.vy = s.vy] : s \in PassiveStates, a \in FValues}

InitCollide ==
    /\ pc = "collide_call"
    /\ N = 2
    /\ F = Zero
    /\ dt = Zero
    /\ rings \in {<<a, b>> : a \in PassiveStates, b \in PassiveStates}
    /\ pairs = <<>>
    /\ frame = 0
    /\ moved = <<>>
    /\ log = <<>>

\* self.collide(rings[i], rings[j])
CollideCall ==
    /\ pc = "collide_call"
    /\ pc' = "collide_ret"
    /\ \E p \in {<<0, 1>>, <<1, 0>>} :
          /\ rings' = Collide(rings, p[1], p[2])
          /\ log' = <<[i |-> p[1], j |-> p[2], before |-> rings,
                       after |-> rings', called |-> TRUE]>>
    /\ moved' = rings
    /\ UNCHANGED <<N, F, dt, pairs, frame>>

SpecCollide == InitCollide /\ [][CollideCall]_vars

(***************************************************************************)
(* move called on its own, on an arbitrary ring.                           *)
(***************************************************************************)
InitMove ==
    /\ pc = "move_call"
    /\ N = 1
    /\ F = Zero
    /\ dt \in DtValues
    /\ rings \in {<<s>> : s \in PassiveStates \cup ActiveStates}
    /\ pairs = <<>>
    /\ frame = 0
    /\ moved = <<>>
    /\ log = <<>>

\* ring.move(dt)
MoveCall ==
    /\ pc = "move_call"
    /\ pc' = "move_ret"
    /\ rings' = <<Move(rings[1], dt)>>
    /\ moved' = rings
    /\ UNCHANGED <<N, F, dt, pairs, frame, log>>

SpecMove == InitMove /\ [][MoveCall]_vars

(***************************************************************************)
(* Properties.                                                             *)
(***************************************************************************)
\* |y_i - y_j| > r_i + r_j for rings i, j (0-based) of rs
Apart(rs, i, j) ==
    RLt(RAdd(rs[i + 1].r, rs[j + 1].r), RAbs(RSub(rs[i + 1].y, rs[j + 1].y)))

\* the log of the last update lists the pairs in order, each step starting
\* from the state the previous one left, from the moved rings to the final ones
LogChained ==
    /\ Len(log) = Len(pairs)
    /\ \A k \in 1..Len(log) :
          /\ <<log[k].i, log[k].j>> = pairs[k]
          /\ log[k].before = (IF k = 1 THEN moved ELSE log[k - 1].after)
    /\ (log # <<>> => log[Len(log)].after = rings)

C3_MoveClamps ==
    (pc = "move_ret" /\ RLt(Zero, dt)) =>
        LET o   == moved[1]
            n   == rings[1]
            acc == IF o.kind = "Active" THEN RAdd(g, o.a) ELSE g
            ey  == RAdd(o.y, RAdd(RMul(o.vy, dt), RHalf(RMul(acc, RMul(dt, dt)))))
            ev  == RAdd(o.vy, RMul(acc, dt))
        IN  /\ RLeq(Zero, RSub(n.y, n.r))
            /\ n.r = o.r
            /\ IF RLeq(RSub(ey, o.r), Zero)
                  THEN n.y = o.r /\ n.vy = Zero
                  ELSE n.y = ey /\ n.vy = ev

\* move returned after the integrated position landed exactly on the floor
\* with a non-zero integrated velocity
C3_Witness ==
    /\ pc = "move_ret"
    /\ RLt(Zero, dt)
    /\ Integrate(moved[1], dt).y = moved[1].r
    /\ Integrate(moved[1], dt).vy # Zero
    /\ rings[1].vy = Zero

\* C4: for N >= 1, pairs is (N-2, N-1), (N-3, N-2), .., (0, 1), and after
\* any number of updates pairs, the number of rings and every ring's r and a
\* are as constructed.
C4_PairsAndShape ==
    (pc = "ready" /\ N >= 1) =>
        /\ Len(pairs) = N - 1
        /\ \A k \in 1..Len(pairs) : pairs[k] = <<N - 1 - k, N - k>>
        /\ (N = 3 => pairs = <<(<<1, 2>>), (<<0, 1>>)>>)
        /\ (N = 1 => pairs = <<>>)
        /\ Len(rings) = N
        /\ \A k \in 1..Len(rings) :
              /\ rings[k].r = RingRadius
              /\ rings[k].kind = (IF k = N THEN "Active" ELSE "Passive")
              /\ (k = N => rings[k].a = F)

\* a chain of three after at least two updates, the last one with a collide
C4_Witness ==
    /\ pc = "ready"
    /\ N = 3
    /\ frame >= 2
    /\ \E k \in 1..Len(log) : log[k].called

C6_Rejected ==
    pc = "ready" => (N >= 1 /\ RLt(Zero, dt))

\* C7: with N = 1 and F = 0, no update invokes collide and after every
\* update the ring has y = r and vy = 0, although integrating it gives the
\* velocity g*dt and a position not above the floor.
C7_SingleRingRests ==
    (pc = "ready" /\ N = 1 /\ F = Zero) =>
        /\ log = <<>>
        /\ Len(rings) = 1
        /\ rings[1].y = rings[1].r
        /\ rings[1].vy = Zero
        /\ Integrate(rings[1], dt).vy = RMul(g, dt)
        /\ RLeq(Integrate(rings[1], dt).y, rings[1].r)

\* the single ring after two updates with a positive dt
C7_Witness ==
    /\ pc = "ready"
    /\ N = 1
    /\ F = Zero
    /\ frame >= 2
    /\ RLt(Zero, dt)
    /\ moved = rings

\* C8: for N = 3 the test on pair (0, 1) is taken on the rings as pair
\* (1, 2) left them, and whenever that differs from the test on the rings
\* right after the motion loop, examining the pairs in the order
\* (0, 1), (1, 2) would have ended the update in a different state.
C8_OrderMatters ==
    (pc = "ready" /\ N = 3 /\ frame >= 1) =>
        LET after12 == PairLoop(moved, <<(<<1, 2>>)>>, <<>>).rings
            other   == PairLoop(moved, <<(<<0, 1>>), (<<1, 2>>)>>, <<>>).rings
        IN  /\ Len(log) = 2
            /\ <<log[2].i, log[2].j>> = <<0, 1>>
            /\ log[2].called <=> Apart(after12, 0, 1)
            /\ (log[2].called # Apart(moved, 0, 1)) => other # rings

\* an update of a chain of three in which pair (0, 1) was decided differently
\* from what the rings right after the motion loop would have given
C8_Witness ==
    /\ pc = "ready"
    /\ N = 3
    /\ frame >= 1
    /\ Len(log) = 2
    /\ log[2].called # Apart(moved, 0, 1)
    /\ PairLoop(moved, <<(<<0, 1>>), (<<1, 2>>)>>, <<>>).rings # rings

C10_LastPairLinked ==
    (pc = "ready" /\ N >= 2 /\ frame >= 1) => ~ Apart(rings, 0, 1)

\* C10 as stated: for N >= 2, at the end of every update every adjacent
\* pair has |y_i - y_(i+1)| <= r_i + r_(i+1).
C10_AllPairsLinked ==
    (pc = "ready" /\ N >= 2 /\ frame >= 1) =>
        \A i \in 0..(N - 2) : ~ Apart(rings, i, i + 1)

\* an update of a chain of three that invoked collide on (0, 1) and left
\* (1, 2) apart
C10_Witness ==
    /\ pc = "ready"
    /\ N = 3
    /\ frame >= 1
    /\ Len(log) = 2
    /\ log[2].called
    /\ Apart(rings, 1, 2)

====
